---- MODULE Spec2Model ----
(***************************************************************************)
(* PaperMemory: the in-memory search / filter / pagination pipeline of the *)
(* popup and of the full-memory page (src/src/popup/js/memory.js).         *)
(*                                                                         *)
(* JavaScript strings are TLA+ strings; a character is a string of length  *)
(* one.  The string functions the code calls (toLowerCase, split,          *)
(* includes, replace, replaceAll, parseInt, join) are operators computed   *)
(* as the JavaScript functions compute them.                               *)
(***************************************************************************)
EXTENDS Integers, Sequences, FiniteSets, TLC

(***************************************************************************)
(* Bounds of the model.                                                    *)
(***************************************************************************)
\* papers in the store are drawn from the first NumPapers catalogue entries
NumPapers == 3
\* global.state.memoryItemsPerPage ranges over 1..MaxPageSize
MaxPageSize == 2

(***************************************************************************)
(* JavaScript string functions.                                            *)
(***************************************************************************)
\* s.charAt(i - 1)
CharAt(s, i) == SubSeq(s, i, i)

\* String.prototype.toLowerCase on one character
LowerChar(c) ==
    CASE c = "A" -> "a" [] c = "B" -> "b" [] c = "C" -> "c" [] c = "E" -> "e"
      [] c = "G" -> "g" [] c = "L" -> "l" [] c = "N" -> "n" [] c = "P" -> "p"
      [] c = "S" -> "s" [] c = "T" -> "t" [] c = "V" -> "v" [] c = "Y" -> "y"
      [] OTHER -> c

RECURSIVE toLowerCase(_)
toLowerCase(s) ==
    IF Len(s) = 0 THEN ""
    ELSE LowerChar(CharAt(s, 1)) \o toLowerCase(SubSeq(s, 2, Len(s)))

\* s.startsWith(p)
startsWith(s, p) == Len(s) >= Len(p) /\ SubSeq(s, 1, Len(p)) = p

\* s.indexOf(p) + 1: the 1-based place of the first occurrence, 0 when none
indexOf(s, p) ==
    LET hits == {i \in 1..(Len(s) - Len(p) + 1) : SubSeq(s, i, i + Len(p) - 1) = p}
    IN IF hits = {} THEN 0 ELSE CHOOSE i \in hits : \A j \in hits : i <= j

\* s.includes(p)
includes(s, p) == indexOf(s, p) > 0

\* s.replace(p, r) with a string pattern: the first occurrence only
replace(s, p, r) ==
    LET i == indexOf(s, p)
    IN IF i = 0 THEN s
       ELSE SubSeq(s, 1, i - 1) \o r \o SubSeq(s, i + Len(p), Len(s))

\* s.replaceAll(c, r) for a one-character pattern c
RECURSIVE replaceAll(_, _, _)
replaceAll(s, c, r) ==
    IF Len(s) = 0 THEN ""
    ELSE (IF CharAt(s, 1) = c THEN r ELSE CharAt(s, 1))
         \o replaceAll(SubSeq(s, 2, Len(s)), c, r)

\* s.split(" "): the pieces between single spaces, empty pieces kept
RECURSIVE split(_)
split(s) ==
    LET i == indexOf(s, " ")
    IN IF i = 0 THEN <<s>>
       ELSE <<SubSeq(s, 1, i - 1)>> \o split(SubSeq(s, i + 1, Len(s)))

\* a.join(" ")
RECURSIVE join(_)
join(a) ==
    IF Len(a) = 0 THEN ""
    ELSE IF Len(a) = 1 THEN a[1]
    ELSE a[1] \o " " \o join(Tail(a))

\* s.trim() (spaces are the only white space of the model's alphabet)
RECURSIVE trim(_)
trim(s) ==
    IF Len(s) = 0 THEN s
    ELSE IF CharAt(s, 1) = " " THEN trim(SubSeq(s, 2, Len(s)))
    ELSE IF CharAt(s, Len(s)) = " " THEN trim(SubSeq(s, 1, Len(s) - 1))
    ELSE s

\* NaN: every comparison with it is false
NaN == -1

Digits == {"0", "1", "2", "3", "4", "5", "6", "7", "8", "9"}

DigitVal(c) ==
    CASE c = "0" -> 0 [] c = "1" -> 1 [] c = "2" -> 2 [] c = "3" -> 3
      [] c = "4" -> 4 [] c = "5" -> 5 [] c = "6" -> 6 [] c = "7" -> 7
      [] c = "8" -> 8 [] c = "9" -> 9

\* the value of the longest prefix of digits of s, acc being the value so far
RECURSIVE ParseDigits(_, _)
ParseDigits(s, acc) ==
    IF Len(s) = 0 \/ CharAt(s, 1) \notin Digits THEN acc
    ELSE ParseDigits(SubSeq(s, 2, Len(s)), 10 * acc + DigitVal(CharAt(s, 1)))

\* parseInt(s, 10): leading white space skipped, then the longest prefix of
\* digits; NaN when there is none (the alphabet holds no sign character)
RECURSIVE parseInt(_)
parseInt(s) ==
    IF Len(s) = 0 THEN NaN
    ELSE IF CharAt(s, 1) = " " THEN parseInt(SubSeq(s, 2, Len(s)))
    ELSE IF CharAt(s, 1) \notin Digits THEN NaN
    ELSE ParseDigits(s, 0)

\* JavaScript's ===, > and < on numbers
JsEq(a, b) == a # NaN /\ b # NaN /\ a = b
JsGt(a, b) == a # NaN /\ b # NaN /\ a > b
JsLt(a, b) == a # NaN /\ b # NaN /\ a < b


(***************************************************************************)
(* The paper store.  A paper record holds the fields the filter reads; a   *)
(* year is held as the string JavaScript's parseInt sees ("" for a paper   *)
(* with no year), codeLink "" stands for a paper with no code link.        *)
(***************************************************************************)
MkPaper(id, title, author, note, tags, venue, year, codeLink, favorite) ==
    [id |-> id, title |-> title, author |-> author, note |-> note,
     tags |-> tags, venue |-> venue, year |-> year, codeLink |-> codeLink,
     favorite |-> favorite]

\* the papers a store is drawn from
Catalogue(i) ==
    CASE i = 1 -> MkPaper("a1", "Gan", "lee", "", <<"gan", "vae">>, "", "2021",
                          "git/GAN", FALSE)
      [] i = 2 -> MkPaper("a2", "Seg net", "", "ga", <<>>, "cvpr", "2023",
                          "", TRUE)
      [] i = 3 -> MkPaper("a3", "nlp", "", "", <<"NLP", "seg">>, "", "2019",
                          "", TRUE)
      [] i = 4 -> MkPaper("a4", "", "lee", "", <<"cv">>, "", "",
                          "lab/seg", FALSE)
      [] OTHER -> MkPaper("a5", "vae", "", "", <<"gan">>, "", "20",
                          "", FALSE)

CatalogueIds == {Catalogue(i).id : i \in 1..NumPapers}

PaperOfId(id) == LET i == CHOOSE j \in 1..NumPapers : Catalogue(j).id = id
                 IN Catalogue(i)

\* the orders of a set of ids: global.state.sortedPapers is some order of the store
Orders(S) ==
    {s \in [1..Cardinality(S) -> S] : \A i, j \in DOMAIN s : i # j => s[i] # s[j]}

\* the values of the search input (#memory-search)
Queries ==
    {"", "ga", "ga  seg", "lee cvpr", "A1", " seg ",
     "t:", "t:ga", "t:GA seg", "t: ga", "t:nlp", "t:zz",
     "c:", "c:GIT gan", "c: seg",
     "y:", "y:21", "y:21, 23", "y:19 2023", "y:<22", "y:>22",
     "y: <2022", "y:>ab", "y:abcd", "y:,", "y:>21 ab"}

VARIABLES
    papers,                  \* global.state.papers: id -> paper record
    sortedPapers,            \* global.state.sortedPapers: ids, in the sort order
    papersList,              \* global.state.papersList: ids, sorted and filtered
    showFavorites,           \* global.state.showFavorites
    currentMemoryPagination, \* global.state.currentMemoryPagination
    memoryItemsPerPage,      \* global.state.memoryItemsPerPage
    isFullMemoryPage,        \* whether #papers-table-body is in the document
    rendered,                \* ids of the paper rows in the table, in order
    query,                   \* the string given to the last search function
    event,                   \* the function that ran last
    fresh                    \* papersList is the last search's result, up to reversal

\* the state of the memory's list: the store in memory, its two lists, the table
memoryVars == <<papers, sortedPapers, papersList, showFavorites,
                currentMemoryPagination, memoryItemsPerPage, isFullMemoryPage,
                rendered, query, event, fresh>>

VARIABLES
    storage,                 \* chrome.storage.local's "papers": id -> paper record
    writes,                  \* the writes of the store that have not completed yet
    ui,                      \* what the page shows of each paper's note, tags, favorite
    statePaperTags,          \* global.state.paperTags
    sortKey,                 \* global.state.sortKey
    now,                     \* the clock new Date() reads
    committed,               \* per paper and field, the value of the save completed last
    target                   \* the id of the paper the last handler was called for

\* the state the handlers that edit a paper work on
editVars == <<storage, writes, ui, statePaperTags, sortKey, now, committed, target>>

VARIABLES
    overlay,                 \* #memory-container: closed, opening, open or closing
    memoryIsOpen,            \* global.state.memoryIsOpen
    slideDowns,              \* the slideDown animations that have not ended yet
    slideUps,                \* the slideUp animations that have not ended yet
    calls                    \* how many times openMemory and closeMemory were called

\* the state of the memory overlay
overlayVars == <<overlay, memoryIsOpen, slideDowns, slideUps, calls>>

VARIABLES
    inputValue,              \* the value of #memory-search
    timer,                   \* the timer id the closure of delay() holds
    timers,                  \* the ids of the timers that are set and have not fired
    keystrokes,              \* how many keypress events were handled
    delayTime,               \* the delay makeMemoryHTML gave to delay()
    searches                 \* the queries the filter was run with, in order

\* the state of the debounced search input
searchVars == <<inputValue, timer, timers, keystrokes, delayTime, searches>>

VARIABLES
    throwing,                \* ids of the papers whose template building throws
    malformed                \* the fields that are neither a string nor an array

\* the faulty records of the store
faultVars == <<throwing, malformed>>

VARIABLES
    inflight                 \* the calls of ankiRequest, in the order they were made

\* the state of the calls of the flashcard bridge
requestVars == <<inflight>>

VARIABLES
    noRefresh,               \* the URL contains "?noRefresh=true"
    reloadTimer,             \* autoRefresh's variable time: the id of the last timer
    reloadTimers,            \* the reload timers that are set and have not fired
    clock,                   \* seconds since the page was loaded first
    lastEvent,               \* the clock at the last click, keypress, touchstart or load
    reloads                  \* how many times the page was reloaded

\* the state of the full-memory page's auto refresh
refreshVars == <<noRefresh, reloadTimer, reloadTimers, clock, lastEvent, reloads>>

VARIABLES
    ankiViewState,           \* isOpen, currentPaper, capturedImage
    opening,                 \* the calls of openAnkiView that await the availability check
    bridgeRequests,          \* how many requests were sent to the bridge
    ankiStatus,              \* the type of the last status message shown
    keydownHandlers,         \* the document keydown listeners of setupAnkiEventListeners
    panelSetups,             \* how many times the panel was set up since it was closed last
    closeTimers,             \* the delayed closeAnkiView timers that have not fired
    session,                 \* how many times the panel was opened
    cropOpen,                \* the cropping interface is in the document
    captures,                \* the captureTab messages that have no response yet
    fullscreenCrops,         \* the fullscreen crops started on the page and not finished
    cropResults,             \* the anki-add-from-crop messages that have no response yet
    adding,                  \* the calls of handleAddToAnki that await addAnkiCard
    handled,                 \* how many handlers the last key press ran
    steps                    \* how many user actions were taken

\* the state of the flashcard panel
ankiVars == <<ankiViewState, opening, bridgeRequests, ankiStatus, keydownHandlers,
              panelSetups, closeTimers, session, cropOpen, captures, fullscreenCrops,
              cropResults, adding, handled, steps>>

\* the state of the parts the memory's own handlers do not touch
extVars == <<faultVars, requestVars, refreshVars, ankiVars>>

vars == <<memoryVars, editVars, overlayVars, searchVars, extVars>>

(***************************************************************************)
(* The four search functions.  Each computes the new papersList from a     *)
(* sorted list of paper ids and the query string.                          *)
(***************************************************************************)
\* paper[key] is neither a string nor an array
isMalformed(id, key) == \E m \in malformed : m.id = id /\ m.key = key

\* paper[key] is neither a string nor an array and is truthy
isTruthyMalformed(id, key) ==
    \E m \in malformed : m.id = id /\ m.key = key /\ m.value = "number"

\* searchMemory: the lowercased contents of the six content keys of a paper,
\* "" for a content that is neither an array nor a string
searchMemoryContents(paper) ==
    LET content(key, text) ==
            IF isMalformed(paper.id, key) THEN "" ELSE toLowerCase(text)
    IN <<content("title", paper.title), content("author", paper.author),
         content("note", paper.note), content("tags", join(paper.tags)),
         content("id", paper.id), content("venue", paper.venue)>>

searchMemoryList(sorted, letters) ==
    LET words == split(toLowerCase(letters))
        Keep(id) ==
            LET paper == papers[id]
                contents == searchMemoryContents(paper)
            IN /\ \A w \in DOMAIN words :
                      \E c \in DOMAIN contents : includes(contents[c], words[w])
               /\ (~showFavorites \/ paper.favorite)
    IN SelectSeq(sorted, Keep)

\* the result is assigned to sortedPapers as well
searchMemory_InPlace(letters) ==
    /\ papersList' = searchMemoryList(sortedPapers, letters)
    /\ sortedPapers' = papersList'
    /\ UNCHANGED <<papers, showFavorites, currentMemoryPagination,
                   memoryItemsPerPage, isFullMemoryPage, rendered>>

searchMemory(letters) ==
    /\ papersList' = searchMemoryList(sortedPapers, letters)
    /\ UNCHANGED <<papers, sortedPapers, showFavorites, currentMemoryPagination,
                   memoryItemsPerPage, isFullMemoryPage, rendered>>

\* searchMemoryByYear: "smaller", "greater" or ""
yearCondition(letters) ==
    IF includes(letters, "<") THEN "smaller"
    ELSE IF includes(letters, ">") THEN "greater"
    ELSE ""

\* s.replace(/(<|>)/g, "")
stripAngles(s) == replaceAll(replaceAll(s, "<", ""), ">", "")

\* searchMemoryByYear: the list searchYears
searchYears(letters) ==
    LET tokens == split(replaceAll(toLowerCase(stripAngles(replace(letters, "y:", ""))),
                                   ",", " "))
        nonEmpty == SelectSeq(tokens, LAMBDA y : Len(y) > 0)
    IN [i \in DOMAIN nonEmpty |->
           parseInt(IF Len(nonEmpty[i]) = 4 THEN nonEmpty[i] ELSE "20" \o nonEmpty[i])]

\* compare with the two directions exchanged
yearCompare_Swapped(condition, y, py) ==
    IF condition = "smaller" THEN JsLt(y, py)
    ELSE IF condition = "greater" THEN JsGt(y, py)
    ELSE JsEq(y, py)

\* searchMemoryByYear: compare(y, py) under a condition
yearCompare(condition, y, py) ==
    IF condition = "smaller" THEN JsGt(y, py)
    ELSE IF condition = "greater" THEN JsLt(y, py)
    ELSE JsEq(y, py)

\* the loop over sortedPapers stops one paper early
searchMemoryByYearList_SkipLast(sorted, letters) ==
    LET condition == yearCondition(letters)
        years == searchYears(letters)
        Keep(id) ==
            LET paperYear == parseInt(papers[id].year)
            IN \E i \in DOMAIN years : yearCompare(condition, years[i], paperYear)
    IN SelectSeq(SubSeq(sorted, 1, Len(sorted) - 1), Keep)

searchMemoryByYearList(sorted, letters) ==
    LET condition == yearCondition(letters)
        years == searchYears(letters)
        Keep(id) ==
            LET paperYear == parseInt(papers[id].year)
            IN \E i \in DOMAIN years : yearCompare(condition, years[i], paperYear)
    IN SelectSeq(sorted, Keep)

searchMemoryByYear(letters) ==
    /\ papersList' = searchMemoryByYearList(sortedPapers, letters)
    /\ UNCHANGED <<papers, sortedPapers, showFavorites, currentMemoryPagination,
                   memoryItemsPerPage, isFullMemoryPage, rendered>>

\* some token of the query, not every token, has to match a tag
searchMemoryByTagsList_AnyToken(sorted, letters) ==
    LET tags == split(toLowerCase(replace(letters, "t:", "")))
        Keep(id) ==
            LET paper == papers[id]
                paperTags == [k \in DOMAIN paper.tags |-> toLowerCase(paper.tags[k])]
            IN /\ \E t \in DOMAIN tags :
                      \E pt \in DOMAIN paperTags : indexOf(paperTags[pt], tags[t]) - 1 >= 0
               /\ (~showFavorites \/ paper.favorite)
    IN SelectSeq(sorted, Keep)

searchMemoryByTagsList(sorted, letters) ==
    LET tags == split(toLowerCase(replace(letters, "t:", "")))
        Keep(id) ==
            LET paper == papers[id]
                paperTags == [k \in DOMAIN paper.tags |-> toLowerCase(paper.tags[k])]
            IN /\ \A t \in DOMAIN tags :
                      \E pt \in DOMAIN paperTags : indexOf(paperTags[pt], tags[t]) - 1 >= 0
               /\ (~showFavorites \/ paper.favorite)
    IN SelectSeq(sorted, Keep)

\* paper.tags.map is called on the tags of every paper of sortedPapers
searchMemoryByTagsThrows ==
    \E i \in DOMAIN sortedPapers : isMalformed(sortedPapers[i], "tags")

\* a throw leaves the function before papersList is assigned
searchMemoryByTags(letters) ==
    /\ papersList' = IF searchMemoryByTagsThrows THEN papersList
                     ELSE searchMemoryByTagsList(sortedPapers, letters)
    /\ UNCHANGED <<papers, sortedPapers, showFavorites, currentMemoryPagination,
                   memoryItemsPerPage, isFullMemoryPage, rendered>>

searchMemoryByCodeList(sorted, letters) ==
    LET words == split(toLowerCase(replace(letters, "c:", "")))
        Keep(id) ==
            LET paper == papers[id]
                paperCode == IF isMalformed(id, "codeLink") THEN ""
                             ELSE toLowerCase(paper.codeLink)
            IN /\ \A w \in DOMAIN words : includes(paperCode, words[w])
               /\ (~showFavorites \/ paper.favorite)
    IN SelectSeq(sorted, Keep)

\* (paper.codeLink || "").toLowerCase() is called for every paper of sortedPapers
searchMemoryByCodeThrows ==
    \E i \in DOMAIN sortedPapers : isTruthyMalformed(sortedPapers[i], "codeLink")

\* a throw leaves the function before papersList is assigned
searchMemoryByCode(letters) ==
    /\ papersList' = IF searchMemoryByCodeThrows THEN papersList
                     ELSE searchMemoryByCodeList(sortedPapers, letters)
    /\ UNCHANGED <<papers, sortedPapers, showFavorites, currentMemoryPagination,
                   memoryItemsPerPage, isFullMemoryPage, rendered>>

\* Array.prototype.reverse
Reverse(s) == [i \in DOMAIN s |-> s[Len(s) + 1 - i]]

\* papersList is left as it is
reverseMemory_SortedOnly ==
    /\ sortedPapers' = Reverse(sortedPapers)
    /\ UNCHANGED <<papers, papersList, showFavorites, currentMemoryPagination,
                   memoryItemsPerPage, isFullMemoryPage, rendered>>

reverseMemory ==
    /\ sortedPapers' = Reverse(sortedPapers)
    /\ papersList' = Reverse(papersList)
    /\ UNCHANGED <<papers, showFavorites, currentMemoryPagination,
                   memoryItemsPerPage, isFullMemoryPage, rendered>>

(***************************************************************************)
(* Display and pagination.                                                 *)
(***************************************************************************)
Min(a, b) == IF a <= b THEN a ELSE b

\* a.slice(start, end) for 0 <= start <= end
slice(a, start, end) ==
    IF start >= Min(end, Len(a)) THEN <<>> ELSE SubSeq(a, start + 1, Min(end, Len(a)))

\* a try around the whole loop: the first throw loses the rest of the slice
templates_TryAroundLoop(page) ==
    LET Failing == {i \in DOMAIN page : page[i] \in throwing}
    IN IF Failing = {} THEN page
       ELSE SubSeq(page, 1, (CHOOSE i \in Failing : \A j \in Failing : i <= j) - 1)

\* the loop over a slice: the template of each paper is built inside its own
\* try, a paper whose template throws is logged and left out
templates(page) ==
    SelectSeq(page, LAMBDA id : id \notin throwing)

\* the table is emptied on every call, not only when pagination is 0
displayMemoryTable_AlwaysClear(pagination, cursor) ==
    LET table == templates(slice(papersList, pagination * memoryItemsPerPage,
                                 (pagination + 1) * memoryItemsPerPage))
    IN /\ currentMemoryPagination' = (IF pagination = 0 THEN 0 ELSE cursor)
       /\ rendered' = table
       /\ UNCHANGED <<papers, sortedPapers, papersList, showFavorites,
                      memoryItemsPerPage, isFullMemoryPage>>

\* displayMemoryTable(pagination), called when currentMemoryPagination is cursor
displayMemoryTable(pagination, cursor) ==
    LET table == templates(slice(papersList, pagination * memoryItemsPerPage,
                                 (pagination + 1) * memoryItemsPerPage))
    IN /\ currentMemoryPagination' = (IF pagination = 0 THEN 0 ELSE cursor)
       /\ rendered' = (IF pagination = 0 THEN table ELSE rendered \o table)
       /\ UNCHANGED <<papers, sortedPapers, papersList, showFavorites,
                      memoryItemsPerPage, isFullMemoryPage>>

\* displayMemoryTableView(pagination), called when currentMemoryPagination is cursor
displayMemoryTableView(pagination, cursor) ==
    IF ~isFullMemoryPage THEN displayMemoryTable(pagination, cursor)
    ELSE LET rows == templates(slice(papersList, pagination * memoryItemsPerPage,
                                     (pagination + 1) * memoryItemsPerPage))
         IN /\ currentMemoryPagination' = (IF pagination = 0 THEN 0 ELSE cursor)
            /\ rendered' =
                   (IF Len(papersList) = 0
                    THEN (IF pagination = 0 THEN <<>> ELSE rendered)
                    ELSE IF pagination = 0 THEN rows ELSE rendered \o rows)
            /\ UNCHANGED <<papers, sortedPapers, papersList, showFavorites,
                           memoryItemsPerPage, isFullMemoryPage>>

\* the table view for the full-memory page, the card view for the popup
displayFirstPage ==
    IF isFullMemoryPage
    THEN displayMemoryTableView(0, currentMemoryPagination)
    ELSE displayMemoryTable(0, currentMemoryPagination)

\* no handler is running: the last one displayed its result
Idle == event \in {"display", "scroll"}

\* the last handler was left by an exception
Thrown == event = "error"

\* makeMemoryHTML: the first display of the memory
makeMemoryHTML ==
    /\ event = "init"
    /\ displayFirstPage
    /\ event' = "display"
    /\ UNCHANGED <<query, fresh>>

\* the callback displayOnScroll debounces; near is
\* Math.abs(bottom - height) < height
displayOnScroll(near) ==
    LET currentPapers == currentMemoryPagination * memoryItemsPerPage
    IN /\ Idle \/ Thrown
       /\ IF near /\ currentPapers < Len(papersList)
          THEN IF isFullMemoryPage
               THEN displayMemoryTableView(currentMemoryPagination + 1,
                                           currentMemoryPagination + 1)
               ELSE displayMemoryTable(currentMemoryPagination + 1,
                                       currentMemoryPagination + 1)
          ELSE UNCHANGED <<papers, sortedPapers, papersList, showFavorites,
                           currentMemoryPagination, memoryItemsPerPage,
                           isFullMemoryPage, rendered>>
       /\ event' = "scroll"
       /\ UNCHANGED <<query, fresh>>

(***************************************************************************)
(* The handlers of the search input and of the sort arrow: they call the   *)
(* functions above and then display the first page again.                  *)
(***************************************************************************)
\* the search function a query is given to, by its prefix
searchByKind(letters) ==
    IF startsWith(letters, "t:") THEN searchMemoryByTags(letters)
    ELSE IF startsWith(letters, "y:") THEN searchMemoryByYear(letters)
    ELSE IF startsWith(letters, "c:") THEN searchMemoryByCode(letters)
    ELSE searchMemory(letters)

\* the search function a query is given to throws
searchThrows(letters) ==
    IF startsWith(letters, "t:") THEN searchMemoryByTagsThrows
    ELSE IF startsWith(letters, "y:") THEN FALSE
    ELSE IF startsWith(letters, "c:") THEN searchMemoryByCodeThrows
    ELSE FALSE

\* the list the search function of a query's kind computes from sorted
searchListByKind(sorted, letters) ==
    IF startsWith(letters, "t:") THEN searchMemoryByTagsList(sorted, letters)
    ELSE IF startsWith(letters, "y:") THEN searchMemoryByYearList(sorted, letters)
    ELSE IF startsWith(letters, "c:") THEN searchMemoryByCodeList(sorted, letters)
    ELSE searchMemoryList(sorted, letters)

\* an exception of the search function leaves the handler: nothing is displayed
handleMemorySearchKeyPress ==
    /\ Idle \/ Thrown
    /\ \E raw \in Queries :
          /\ searchByKind(trim(raw))
          /\ query' = trim(raw)
          /\ event' = (IF searchThrows(trim(raw)) THEN "error" ELSE "search")
          /\ fresh' = (IF searchThrows(trim(raw)) THEN fresh ELSE TRUE)

handleMemorySortArrow ==
    /\ Idle \/ Thrown
    /\ reverseMemory
    /\ event' = "reverse"
    /\ UNCHANGED <<query, fresh>>

\* the handlers' call of displayMemoryTable() once the lists are recomputed
handlerDisplay ==
    /\ event \in {"search", "reverse"}
    /\ displayFirstPage
    /\ event' = "display"
    /\ UNCHANGED <<query, fresh>>

(***************************************************************************)
(* The specification.                                                      *)
(***************************************************************************)
\* the papers of sorted that the favorites toggle keeps
favoritesOf(store, sorted, favoritesOnly) ==
    SelectSeq(sorted, LAMBDA id : ~favoritesOnly \/ store[id].favorite)

\* no handler of a group runs in a specification: the group's state stays as it is
editOff ==
    /\ storage = <<>> /\ writes = <<>> /\ ui = <<>> /\ statePaperTags = {}
    /\ sortKey = "" /\ now = 0 /\ committed = <<>> /\ target = ""

overlayOff ==
    /\ overlay = "open" /\ memoryIsOpen = TRUE
    /\ slideDowns = 0 /\ slideUps = 0 /\ calls = 0

searchOff ==
    /\ inputValue = "" /\ timer = 0 /\ timers = {}
    /\ keystrokes = 0 /\ delayTime = 0 /\ searches = <<>>

faultOff == throwing = {} /\ malformed = {}

requestOff == inflight = <<>>

refreshOff ==
    /\ noRefresh = TRUE /\ reloadTimer = 0 /\ reloadTimers = {}
    /\ clock = 0 /\ lastEvent = 0 /\ reloads = 0

ankiOff ==
    /\ ankiViewState = [isOpen |-> FALSE, currentPaper |-> "", capturedImage |-> ""]
    /\ opening = 0 /\ bridgeRequests = 0 /\ ankiStatus = "" /\ keydownHandlers = 0
    /\ panelSetups = 0 /\ closeTimers = <<>> /\ session = 0 /\ cropOpen = FALSE
    /\ captures = 0 /\ fullscreenCrops = 0 /\ cropResults = 0 /\ adding = 0
    /\ handled = 0 /\ steps = 0

extOff == faultOff /\ requestOff /\ refreshOff /\ ankiOff

Init ==
    /\ \E S \in SUBSET CatalogueIds : papers = [id \in S |-> PaperOfId(id)]
    /\ sortedPapers \in Orders(DOMAIN papers)
    /\ showFavorites \in BOOLEAN
    /\ papersList = favoritesOf(papers, sortedPapers, showFavorites)
    /\ currentMemoryPagination = 0
    /\ memoryItemsPerPage \in 1..MaxPageSize
    /\ isFullMemoryPage \in BOOLEAN
    /\ rendered = <<>>
    /\ query = ""
    /\ event = "init"
    /\ fresh = TRUE
    /\ editOff /\ overlayOff /\ searchOff /\ extOff

Next ==
    \/ makeMemoryHTML /\ UNCHANGED <<editVars, overlayVars, searchVars, extVars>>
    \/ handleMemorySearchKeyPress /\ UNCHANGED <<editVars, overlayVars, searchVars, extVars>>
    \/ handleMemorySortArrow /\ UNCHANGED <<editVars, overlayVars, searchVars, extVars>>
    \/ handlerDisplay /\ UNCHANGED <<editVars, overlayVars, searchVars, extVars>>
    \/ \E near \in BOOLEAN :
           displayOnScroll(near) /\ UNCHANGED <<editVars, overlayVars, searchVars, extVars>>

Spec == Init /\ [][Next]_vars

(***************************************************************************)
(* The display of a store in which the template of some papers throws when *)
(* it is built.                                                            *)
(***************************************************************************)
RenderInit ==
    /\ \E S \in SUBSET CatalogueIds : papers = [id \in S |-> PaperOfId(id)]
    /\ sortedPapers \in Orders(DOMAIN papers)
    /\ showFavorites \in BOOLEAN
    /\ papersList = favoritesOf(papers, sortedPapers, showFavorites)
    /\ currentMemoryPagination = 0
    /\ memoryItemsPerPage \in 1..MaxPageSize
    /\ isFullMemoryPage \in BOOLEAN
    /\ rendered = <<>>
    /\ query = ""
    /\ event = "init"
    /\ fresh = TRUE
    /\ throwing \in SUBSET DOMAIN papers
    /\ malformed = {}
    /\ editOff /\ overlayOff /\ searchOff
    /\ requestOff /\ refreshOff /\ ankiOff

RenderNext ==
    \/ makeMemoryHTML /\ UNCHANGED <<editVars, overlayVars, searchVars, extVars>>
    \/ handleMemorySortArrow /\ UNCHANGED <<editVars, overlayVars, searchVars, extVars>>
    \/ handlerDisplay /\ UNCHANGED <<editVars, overlayVars, searchVars, extVars>>
    \/ \E near \in BOOLEAN :
           displayOnScroll(near) /\ UNCHANGED <<editVars, overlayVars, searchVars, extVars>>

RenderSpec == RenderInit /\ [][RenderNext]_vars

(***************************************************************************)
(* The handlers on a store with a record of which one field is neither a   *)
(* string nor an array: null, or a number.                                 *)
(***************************************************************************)
\* the fields a faulty record is given, and what they hold
MalformedKeys == {"note", "tags", "codeLink"}

MalformedValues == {"null", "number"}

FaultInit ==
    /\ papers = [id \in CatalogueIds |-> PaperOfId(id)]
    /\ sortedPapers = (CHOOSE order \in Orders(DOMAIN papers) : TRUE)
    /\ showFavorites \in BOOLEAN
    /\ papersList = favoritesOf(papers, sortedPapers, showFavorites)
    /\ currentMemoryPagination = 0
    /\ memoryItemsPerPage = MaxPageSize
    /\ isFullMemoryPage \in BOOLEAN
    /\ rendered = <<>>
    /\ query = ""
    /\ event = "init"
    /\ fresh = TRUE
    /\ throwing = {}
    /\ \E id \in CatalogueIds, key \in MalformedKeys, value \in MalformedValues :
           malformed = {[id |-> id, key |-> key, value |-> value]}
    /\ editOff /\ overlayOff /\ searchOff
    /\ requestOff /\ refreshOff /\ ankiOff

FaultSpec == FaultInit /\ [][Next]_vars

(***************************************************************************)
(* The debounced search input.  makeMemoryHTML registers                   *)
(* delay(handleMemorySearchKeyPress(), delayTime) as the keypress listener *)
(* of #memory-search.  Time is counted in steps of TimerStep milliseconds; *)
(* a timer that is set holds the steps left before it is due.              *)
(***************************************************************************)
\* keypress events handled in a behaviour
MaxKeystrokes == 3

\* the lengths of papersList makeMemoryHTML may find
LibrarySizes == {3, 19, 20, 99, 100, 250}

\* the values of #memory-search after a keystroke
TypedQueries == {"g", "ga", "t:ga", "y:21"}

\* makeMemoryHTML: the delay between a keystroke and the search
delayTimeOf(length) ==
    IF length < 20 THEN 0 ELSE IF length < 100 THEN 150 ELSE 300

\* the unit the model counts time in, in milliseconds
TimerStep == 150

\* clearTimeout(id)
clearTimeout(set, id) == {t \in set : t.id # id}

\* setTimeout(fn, ms): the timer id is the number of the keystroke
setTimeout(set, id, ms) == set \cup {[id |-> id, left |-> ms \div TimerStep]}

\* the pending timer is not cleared before the new one is set
delay_NoClear(value) ==
    /\ inputValue' = value
    /\ keystrokes' = keystrokes + 1
    /\ timer' = keystrokes + 1
    /\ timers' = setTimeout(timers, keystrokes + 1, delayTime)
    /\ UNCHANGED <<searches, delayTime>>

\* the function delay(fn, ms) returns, called for a keystroke that leaves
\* value in the input: the pending timer is cleared and a new one is set
delay(value) ==
    /\ inputValue' = value
    /\ keystrokes' = keystrokes + 1
    /\ timer' = keystrokes + 1
    /\ timers' = setTimeout(clearTimeout(timers, timer), keystrokes + 1, delayTime)
    /\ UNCHANGED <<searches, delayTime>>

\* a keypress event of #memory-search
keypress ==
    /\ Idle
    /\ keystrokes < MaxKeystrokes
    /\ \E value \in TypedQueries : delay(value)
    /\ UNCHANGED <<memoryVars, editVars, overlayVars, extVars>>

\* TimerStep milliseconds pass: no timer is due
tick ==
    /\ Idle
    /\ timers # {}
    /\ \A t \in timers : t.left > 0
    /\ timers' = {[t EXCEPT !.left = @ - 1] : t \in timers}
    /\ UNCHANGED <<inputValue, timer, keystrokes, searches, delayTime>>
    /\ UNCHANGED <<memoryVars, editVars, overlayVars, extVars>>

\* a timer that is due fires: the handler reads the input and runs the search
timerFires ==
    /\ Idle
    /\ \E t \in timers :
          /\ t.left = 0
          /\ timers' = timers \ {t}
          /\ searches' = Append(searches, [id |-> t.id, letters |-> trim(inputValue)])
    /\ searchByKind(trim(inputValue))
    /\ query' = trim(inputValue)
    /\ event' = (IF searchThrows(trim(inputValue)) THEN "error" ELSE "search")
    /\ fresh' = (IF searchThrows(trim(inputValue)) THEN fresh ELSE TRUE)
    /\ UNCHANGED <<inputValue, timer, keystrokes, delayTime>>
    /\ UNCHANGED <<editVars, overlayVars, extVars>>

\* the memory is displayed and the listener registered, no key was pressed yet
SearchInit ==
    /\ papers = [id \in CatalogueIds |-> PaperOfId(id)]
    /\ sortedPapers = (CHOOSE order \in Orders(DOMAIN papers) : TRUE)
    /\ showFavorites \in BOOLEAN
    /\ papersList = favoritesOf(papers, sortedPapers, showFavorites)
    /\ currentMemoryPagination = 0
    /\ memoryItemsPerPage = MaxPageSize
    /\ isFullMemoryPage \in BOOLEAN
    /\ rendered = slice(papersList, 0, memoryItemsPerPage)
    /\ query = ""
    /\ event = "display"
    /\ fresh = TRUE
    /\ inputValue = "" /\ timer = 0 /\ timers = {}
    /\ keystrokes = 0 /\ searches = <<>>
    /\ \E length \in LibrarySizes : delayTime = delayTimeOf(length)
    /\ editOff /\ overlayOff /\ extOff

SearchNext ==
    \/ keypress
    \/ tick
    \/ timerFires
    \/ handlerDisplay /\ UNCHANGED <<editVars, overlayVars, searchVars, extVars>>

SearchSpec == SearchInit /\ [][SearchNext]_vars

(***************************************************************************)
(* The handlers that edit a paper.  Each changes the record in             *)
(* global.state.papers and then writes the whole collection to             *)
(* chrome.storage.local; a write carries the collection as it was when the *)
(* write was issued and the writes in flight complete in any order.  The   *)
(* card view (saveNote, saveFavoriteItem, updatePaperTags) is the popup's, *)
(* the table view (handle...Table) the full-memory page's.                 *)
(***************************************************************************)
\* handlers run in a behaviour
MaxEdits == 3

\* the papers of the store the handlers are called for
EditedIds == {"a1", "a2"}

\* a stored paper: the fields the filter reads and those the handlers write;
\* a date is a reading of the clock, 0 when it was never set
StoredPaper(id) ==
    PaperOfId(id) @@ [favoriteDate |-> IF PaperOfId(id).favorite THEN 1 ELSE 0,
                      count |-> 1,
                      lastOpenDate |-> IF id = "a1" THEN 1 ELSE 0]

\* the notes given to saveNote, the values of a table row's note editor
NoteInputs == {"", " n2 "}

\* the tags select2 gives to updatePaperTags
TagChoices == {<<>>, <<"cv", "gan">>}

\* the values of a table row's tags editor
TagInputs == {"", "cv, gan,"}

\* s.split(c) for a one-character separator c
RECURSIVE splitOn(_, _)
splitOn(s, c) ==
    LET i == indexOf(s, c)
    IN IF i = 0 THEN <<s>>
       ELSE <<SubSeq(s, 1, i - 1)>> \o splitOn(SubSeq(s, i + 1, Len(s)), c)

\* a.join(", ")
RECURSIVE joinComma(_)
joinComma(a) ==
    IF Len(a) = 0 THEN ""
    ELSE IF Len(a) = 1 THEN a[1]
    ELSE a[1] \o ", " \o joinComma(Tail(a))

\* handleTagsEditTable: the tags of a comma-separated string
parseTagsTable(newValue) ==
    IF newValue = "" THEN <<>>
    ELSE LET pieces == splitOn(newValue, ",")
             trimmed == [k \in DOMAIN pieces |-> trim(pieces[k])]
         IN SelectSeq(trimmed, LAMBDA tag : tag # "")

\* makeTags: the set of the tags of all papers
makeTags(collection) ==
    UNION {{collection[id].tags[k] : k \in DOMAIN collection[id].tags} :
              id \in DOMAIN collection}

\* sortMemory: a list of ids in descending order of the sort key, the papers
\* with equal keys in the order they had
sortedBy(collection, list, key) ==
    LET place(id) == CHOOSE i \in DOMAIN list : list[i] = id
        ids == {list[i] : i \in DOMAIN list}
    IN CHOOSE order \in Orders(ids) :
           \A i, j \in DOMAIN order :
               i < j => \/ collection[order[i]][key] > collection[order[j]][key]
                        \/ /\ collection[order[i]][key] = collection[order[j]][key]
                           /\ place(order[i]) < place(order[j])

\* chrome.storage.local.set({ papers }) / setStorage("papers", papers): the
\* write is in flight, with the collection as it is now
issueWrite(op, id, value, collection) ==
    writes' = Append(writes, [op |-> op, id |-> id, value |-> value,
                              snapshot |-> collection])

\* what a handler that starts leaves alone: the lists and the table
editFrame ==
    UNCHANGED <<sortedPapers, papersList, showFavorites, currentMemoryPagination,
                memoryItemsPerPage, isFullMemoryPage, rendered, query, fresh,
                storage, statePaperTags, sortKey, committed>>

\* a handler can start: none is running and the bound is not reached
canEdit == event # "sortMemory" /\ now < MaxEdits + 2

saveNote(id, note) ==
    /\ canEdit /\ ~isFullMemoryPage
    /\ papers' = [papers EXCEPT ![id].note = note]
    /\ issueWrite("saveNote", id, note, papers')
    /\ now' = now + 1 /\ target' = id /\ event' = "saveNote"
    /\ UNCHANGED ui
    /\ editFrame

saveFavoriteItem(id, favorite) ==
    /\ canEdit /\ ~isFullMemoryPage
    /\ papers' = [papers EXCEPT ![id].favorite = favorite, ![id].favoriteDate = now]
    /\ issueWrite("saveFavoriteItem", id, favorite, papers')
    /\ now' = now + 1 /\ target' = id /\ event' = "saveFavoriteItem"
    /\ UNCHANGED ui
    /\ editFrame

updatePaperTags(id, tags) ==
    /\ canEdit /\ ~isFullMemoryPage
    /\ papers' = [papers EXCEPT ![id].tags = tags]
    /\ IF papers[id].tags # tags
       THEN issueWrite("updatePaperTags", id, tags, papers')
       ELSE UNCHANGED writes
    /\ now' = now + 1 /\ target' = id /\ event' = "updatePaperTags"
    /\ UNCHANGED ui
    /\ editFrame

handleToggleFavoriteTable(id) ==
    /\ canEdit /\ isFullMemoryPage
    /\ papers' = [papers EXCEPT ![id].favorite = ~papers[id].favorite]
    /\ ui' = [ui EXCEPT ![id].favorite = papers'[id].favorite]
    /\ issueWrite("handleToggleFavoriteTable", id, papers'[id].favorite, papers')
    /\ now' = now + 1 /\ target' = id /\ event' = "handleToggleFavoriteTable"
    /\ editFrame

handleTagsEditTable(id, value) ==
    LET newValue == trim(value)
    IN /\ canEdit /\ isFullMemoryPage
       /\ newValue # ui[id].tagsOriginal
       /\ papers' = [papers EXCEPT ![id].tags = parseTagsTable(newValue)]
       /\ ui' = [ui EXCEPT ![id].tagsOriginal = newValue]
       /\ issueWrite("handleTagsEditTable", id, parseTagsTable(newValue), papers')
       /\ now' = now + 1 /\ target' = id /\ event' = "handleTagsEditTable"
       /\ editFrame

handleNoteEditTable(id, value) ==
    LET newValue == trim(value)
    IN /\ canEdit /\ isFullMemoryPage
       /\ newValue # ui[id].noteOriginal
       /\ papers' = [papers EXCEPT ![id].note = newValue]
       /\ ui' = [ui EXCEPT ![id].noteOriginal = newValue]
       /\ issueWrite("handleNoteEditTable", id, newValue, papers')
       /\ now' = now + 1 /\ target' = id /\ event' = "handleNoteEditTable"
       /\ editFrame

\* the count is written back as it was
handleOpenPaperTable_NoIncrement(id) ==
    /\ canEdit /\ isFullMemoryPage
    /\ papers' = [papers EXCEPT ![id].count = papers[id].count,
                                ![id].lastOpenDate = now]
    /\ issueWrite("handleOpenPaperTable", id, papers'[id].count, papers')
    /\ now' = now + 1 /\ target' = id /\ event' = "handleOpenPaperTable"
    /\ UNCHANGED ui
    /\ editFrame

\* count is a number in every stored paper, so (paper.count || 0) is paper.count
handleOpenPaperTable(id) ==
    /\ canEdit /\ isFullMemoryPage
    /\ papers' = [papers EXCEPT ![id].count = papers[id].count + 1,
                                ![id].lastOpenDate = now]
    /\ issueWrite("handleOpenPaperTable", id, papers'[id].count, papers')
    /\ now' = now + 1 /\ target' = id /\ event' = "handleOpenPaperTable"
    /\ UNCHANGED ui
    /\ editFrame

\* updatePaperVisits: one more visit, at the time of the clock
updatePaperVisits(paper, time) ==
    [paper EXCEPT !.count = paper.count + 1, !.lastOpenDate = time]

\* focusExistingOrCreateNewPaperTab, once the tabs are queried: the paper of a
\* memory item is opened
focusExistingOrCreateNewPaperTab(id) ==
    /\ canEdit /\ ~isFullMemoryPage
    /\ papers' = [papers EXCEPT ![id] = updatePaperVisits(papers[id], now)]
    /\ issueWrite("focusExistingOrCreateNewPaperTab", id, papers'[id].count, papers')
    /\ now' = now + 1 /\ target' = id /\ event' = "focusExistingOrCreateNewPaperTab"
    /\ UNCHANGED ui
    /\ editFrame

\* the field of a paper a handler saves
fieldOf(op) ==
    CASE op \in {"saveNote", "handleNoteEditTable"} -> "note"
      [] op \in {"updatePaperTags", "handleTagsEditTable"} -> "tags"
      [] op \in {"saveFavoriteItem", "handleToggleFavoriteTable"} -> "favorite"
      [] op \in {"handleOpenPaperTable", "focusExistingOrCreateNewPaperTab"} -> "count"

\* a write completes: the store holds the collection the write carried, and the
\* handler that issued it goes on (the callback of chrome.storage.local.set, the
\* code after await setStorage)
writeCompletes(i) ==
    LET w == writes[i]
        resort == w.op = "saveFavoriteItem" /\ sortKey = "favoriteDate" /\ ~w.value
    IN /\ event # "sortMemory"
       /\ storage' = w.snapshot
       /\ writes' = SubSeq(writes, 1, i - 1) \o SubSeq(writes, i + 1, Len(writes))
       /\ ui' = CASE w.op = "saveNote" -> [ui EXCEPT ![w.id].note = w.value]
                  [] w.op = "saveFavoriteItem" ->
                         [ui EXCEPT ![w.id].favorite = w.value]
                  [] w.op = "updatePaperTags" ->
                         [ui EXCEPT ![w.id].tags = papers[w.id].tags]
                  [] w.op = "handleTagsEditTable" ->
                         [ui EXCEPT ![w.id].tags = w.value]
                  [] w.op = "handleNoteEditTable" ->
                         [ui EXCEPT ![w.id].note = w.value]
                  [] OTHER -> ui
       /\ statePaperTags' = IF w.op = "updatePaperTags" THEN makeTags(papers)
                            ELSE statePaperTags
       /\ sortedPapers' = IF resort THEN sortedBy(papers, sortedPapers, sortKey)
                          ELSE sortedPapers
       /\ papersList' = IF resort THEN sortedBy(papers, papersList, sortKey)
                        ELSE papersList
       /\ event' = IF resort THEN "sortMemory" ELSE "stored"
       /\ committed' = [committed EXCEPT ![w.id][fieldOf(w.op)] = w.value]
       /\ target' = w.id
       /\ UNCHANGED <<papers, showFavorites, currentMemoryPagination,
                      memoryItemsPerPage, isFullMemoryPage, rendered, query, fresh,
                      sortKey, now>>

\* saveFavoriteItem's callback: displayMemoryTable() after sortMemory()
callbackDisplay ==
    /\ event = "sortMemory"
    /\ displayMemoryTable(0, currentMemoryPagination)
    /\ event' = "display"
    /\ UNCHANGED <<query, fresh, editVars>>

\* the memory is displayed, sorted by the sort key, and the store holds what
\* the memory holds
EditInit ==
    /\ papers = [id \in EditedIds |-> StoredPaper(id)]
    /\ sortKey \in {"lastOpenDate", "favoriteDate"}
    /\ \E order \in Orders(EditedIds) :
           sortedPapers = sortedBy(papers, order, sortKey)
    /\ showFavorites = FALSE
    /\ papersList = sortedPapers
    /\ currentMemoryPagination = 0
    /\ memoryItemsPerPage = MaxPageSize
    /\ isFullMemoryPage \in BOOLEAN
    /\ rendered = slice(papersList, 0, memoryItemsPerPage)
    /\ query = "" /\ event = "display" /\ fresh = TRUE
    /\ storage = papers
    /\ writes = <<>>
    /\ ui = [id \in EditedIds |->
                [note |-> papers[id].note, tags |-> papers[id].tags,
                 favorite |-> papers[id].favorite,
                 noteOriginal |-> papers[id].note,
                 tagsOriginal |-> joinComma(papers[id].tags)]]
    /\ statePaperTags = makeTags(papers)
    /\ now = 2
    /\ committed = [id \in EditedIds |->
                       [note |-> papers[id].note, tags |-> papers[id].tags,
                        favorite |-> papers[id].favorite, count |-> papers[id].count]]
    /\ target = ""
    /\ overlayOff /\ searchOff /\ extOff

EditNext ==
    \/ \E id \in EditedIds, note \in NoteInputs :
           saveNote(id, note) /\ UNCHANGED <<overlayVars, searchVars, extVars>>
    \/ \E id \in EditedIds, favorite \in BOOLEAN :
           saveFavoriteItem(id, favorite) /\ UNCHANGED <<overlayVars, searchVars, extVars>>
    \/ \E id \in EditedIds, tags \in TagChoices :
           updatePaperTags(id, tags) /\ UNCHANGED <<overlayVars, searchVars, extVars>>
    \/ \E id \in EditedIds :
           handleToggleFavoriteTable(id) /\ UNCHANGED <<overlayVars, searchVars, extVars>>
    \/ \E id \in EditedIds, value \in TagInputs :
           handleTagsEditTable(id, value) /\ UNCHANGED <<overlayVars, searchVars, extVars>>
    \/ \E id \in EditedIds, value \in NoteInputs :
           handleNoteEditTable(id, value) /\ UNCHANGED <<overlayVars, searchVars, extVars>>
    \/ \E id \in EditedIds :
           handleOpenPaperTable(id) /\ UNCHANGED <<overlayVars, searchVars, extVars>>
    \/ \E id \in EditedIds :
           focusExistingOrCreateNewPaperTab(id)
               /\ UNCHANGED <<overlayVars, searchVars, extVars>>
    \/ \E i \in DOMAIN writes :
           writeCompletes(i) /\ UNCHANGED <<overlayVars, searchVars, extVars>>
    \/ callbackDisplay /\ UNCHANGED <<overlayVars, searchVars, extVars>>

EditSpec == EditInit /\ [][EditNext]_vars

(***************************************************************************)
(* The same handlers while the favorites filter is on: the list holds the  *)
(* favorite papers of the store.                                           *)
(***************************************************************************)
FavoritesInit ==
    /\ papers = [id \in EditedIds |-> StoredPaper(id)]
    /\ sortKey = "favoriteDate"
    /\ \E order \in Orders(EditedIds) :
           sortedPapers = sortedBy(papers, order, sortKey)
    /\ showFavorites = TRUE
    /\ papersList = favoritesOf(papers, sortedPapers, showFavorites)
    /\ currentMemoryPagination = 0
    /\ memoryItemsPerPage = MaxPageSize
    /\ isFullMemoryPage \in BOOLEAN
    /\ rendered = slice(papersList, 0, memoryItemsPerPage)
    /\ query = "" /\ event = "display" /\ fresh = TRUE
    /\ storage = papers
    /\ writes = <<>>
    /\ ui = [id \in EditedIds |->
                [note |-> papers[id].note, tags |-> papers[id].tags,
                 favorite |-> papers[id].favorite,
                 noteOriginal |-> papers[id].note,
                 tagsOriginal |-> joinComma(papers[id].tags)]]
    /\ statePaperTags = makeTags(papers)
    /\ now = 2
    /\ committed = [id \in EditedIds |->
                       [note |-> papers[id].note, tags |-> papers[id].tags,
                        favorite |-> papers[id].favorite, count |-> papers[id].count]]
    /\ target = ""
    /\ overlayOff /\ searchOff /\ extOff

FavoritesSpec == FavoritesInit /\ [][EditNext]_vars

(***************************************************************************)
(* The keys of the inline editors of a table row.  Enter (Ctrl+Enter in    *)
(* the note) blurs the editor; Escape puts data-original-value back in the *)
(* editor and blurs it.  blur() runs the blur listener, handle...EditTable,*)
(* up to its first await before the keydown listener returns.              *)
(***************************************************************************)
\* the notes of the stored papers: a note is stored as it was typed
StoredNotes == {"", "n2", " n2 "}

\* the keys pressed in an editor
EditorKeys == {"Enter", "Escape"}

\* the blur listener of the tags editor, called with value in the editor
tagsBlur(id, value) ==
    LET newValue == trim(value)
    IN IF newValue = ui[id].tagsOriginal
       THEN UNCHANGED <<papers, ui, writes, now>>
       ELSE /\ papers' = [papers EXCEPT ![id].tags = parseTagsTable(newValue)]
            /\ ui' = [ui EXCEPT ![id].tagsOriginal = newValue]
            /\ issueWrite("handleTagsEditTable", id, parseTagsTable(newValue), papers')
            /\ now' = now + 1

\* Enter blurs the tags editor
handleTagsKeydownTable(id, key, typed) ==
    /\ canEdit /\ isFullMemoryPage
    /\ IF key = "Escape" THEN tagsBlur(id, ui[id].tagsOriginal) ELSE tagsBlur(id, typed)
    /\ target' = id
    /\ event' = "handleTagsKeydownTable(" \o key \o ")"
    /\ editFrame

\* the blur listener of the note editor, called with value in the editor
noteBlur(id, value) ==
    LET newValue == trim(value)
    IN IF newValue = ui[id].noteOriginal
       THEN UNCHANGED <<papers, ui, writes, now>>
       ELSE /\ papers' = [papers EXCEPT ![id].note = newValue]
            /\ ui' = [ui EXCEPT ![id].noteOriginal = newValue]
            /\ issueWrite("handleNoteEditTable", id, newValue, papers')
            /\ now' = now + 1

\* Enter blurs the note editor when the Ctrl key is down
handleNoteKeydownTable(id, key, ctrlKey, typed) ==
    /\ canEdit /\ isFullMemoryPage
    /\ IF key = "Escape" THEN noteBlur(id, ui[id].noteOriginal)
       ELSE IF ctrlKey THEN noteBlur(id, typed)
       ELSE UNCHANGED <<papers, ui, writes, now>>
    /\ target' = id
    /\ event' = "handleNoteKeydownTable(" \o key \o ")"
    /\ editFrame

\* the table of the full-memory page is displayed and the store holds what
\* the memory holds
EscapeInit ==
    /\ \E notes \in [EditedIds -> StoredNotes], tags \in [EditedIds -> TagChoices] :
           papers = [id \in EditedIds |->
                        [StoredPaper(id) EXCEPT !.note = notes[id], !.tags = tags[id]]]
    /\ sortKey = "lastOpenDate"
    /\ sortedPapers = sortedBy(papers, CHOOSE order \in Orders(EditedIds) : TRUE, sortKey)
    /\ showFavorites = FALSE
    /\ papersList = sortedPapers
    /\ currentMemoryPagination = 0
    /\ memoryItemsPerPage = MaxPageSize
    /\ isFullMemoryPage = TRUE
    /\ rendered = slice(papersList, 0, memoryItemsPerPage)
    /\ query = "" /\ event = "display" /\ fresh = TRUE
    /\ storage = papers
    /\ writes = <<>>
    /\ ui = [id \in EditedIds |->
                [note |-> papers[id].note, tags |-> papers[id].tags,
                 favorite |-> papers[id].favorite,
                 noteOriginal |-> papers[id].note,
                 tagsOriginal |-> joinComma(papers[id].tags)]]
    /\ statePaperTags = makeTags(papers)
    /\ now = 2
    /\ committed = [id \in EditedIds |->
                       [note |-> papers[id].note, tags |-> papers[id].tags,
                        favorite |-> papers[id].favorite, count |-> papers[id].count]]
    /\ target = ""
    /\ overlayOff /\ searchOff /\ extOff

EscapeNext ==
    \/ \E id \in EditedIds, key \in EditorKeys, typed \in TagInputs :
           handleTagsKeydownTable(id, key, typed)
               /\ UNCHANGED <<overlayVars, searchVars, extVars>>
    \/ \E id \in EditedIds, key \in EditorKeys, ctrlKey \in BOOLEAN, typed \in NoteInputs :
           handleNoteKeydownTable(id, key, ctrlKey, typed)
               /\ UNCHANGED <<overlayVars, searchVars, extVars>>
    \/ \E i \in DOMAIN writes :
           writeCompletes(i) /\ UNCHANGED <<overlayVars, searchVars, extVars>>

EscapeSpec == EscapeInit /\ [][EscapeNext]_vars

(***************************************************************************)
(* The memory overlay of the popup.  openMemory starts a slideDown of      *)
(* #memory-container and closeMemory a slideUp; an animation ends 200 ms   *)
(* after it started, whatever was started since, and the callback of       *)
(* slideUp runs when the slideUp ends.  Both functions can be called at    *)
(* any time.                                                               *)
(***************************************************************************)
\* calls of openMemory and closeMemory in a behaviour
MaxCalls == 4

openMemory ==
    /\ calls < MaxCalls
    /\ memoryIsOpen' = TRUE
    /\ overlay' = "opening"
    /\ slideDowns' = slideDowns + 1
    /\ calls' = calls + 1
    /\ event' = "openMemory"
    /\ UNCHANGED <<papers, sortedPapers, papersList, showFavorites,
                   currentMemoryPagination, memoryItemsPerPage, isFullMemoryPage,
                   rendered, query, fresh, slideUps, inputValue>>

\* the slideDown of openMemory ends
slideDownEnds ==
    /\ slideDowns > 0
    /\ slideDowns' = slideDowns - 1
    /\ overlay' = "open"
    /\ event' = "slideDown"
    /\ UNCHANGED <<papers, sortedPapers, papersList, showFavorites,
                   currentMemoryPagination, memoryItemsPerPage, isFullMemoryPage,
                   rendered, query, fresh, memoryIsOpen, slideUps, calls, inputValue>>

closeMemory ==
    /\ calls < MaxCalls
    /\ overlay' = "closing"
    /\ slideUps' = slideUps + 1
    /\ calls' = calls + 1
    /\ event' = "closeMemory"
    /\ UNCHANGED <<papers, sortedPapers, papersList, showFavorites,
                   currentMemoryPagination, memoryItemsPerPage, isFullMemoryPage,
                   rendered, query, fresh, memoryIsOpen, slideDowns, inputValue>>

\* the favorite flag of every paper is reset with the favorites toggle
closeMemoryCallback_ResetPapers ==
    /\ inputValue' = ""
    /\ query' = ""
    /\ memoryIsOpen' = FALSE
    /\ showFavorites' = FALSE
    /\ papers' = [id \in DOMAIN papers |-> [papers[id] EXCEPT !.favorite = FALSE]]
    /\ papersList' = sortedPapers
    /\ currentMemoryPagination' = 0
    /\ rendered' = slice(papersList', 0, memoryItemsPerPage)
    /\ fresh' = TRUE
    /\ UNCHANGED <<sortedPapers, memoryItemsPerPage, isFullMemoryPage>>

\* the callback closeMemory gives to slideUp: the search input is emptied and
\* its clear-search listener runs the search, memoryIsOpen is set to false and
\* the favorites filter, when on, is clicked off; the list is then all of
\* sortedPapers and the table its first page
closeMemoryCallback ==
    /\ inputValue' = ""
    /\ query' = ""
    /\ memoryIsOpen' = FALSE
    /\ showFavorites' = FALSE
    /\ papersList' = favoritesOf(papers, sortedPapers, FALSE)
    /\ currentMemoryPagination' = 0
    /\ rendered' = slice(papersList', 0, memoryItemsPerPage)
    /\ fresh' = TRUE
    /\ UNCHANGED <<papers, sortedPapers, memoryItemsPerPage, isFullMemoryPage>>

\* a slideUp of closeMemory ends: the container is hidden, the callback runs
slideUpEnds ==
    /\ slideUps > 0
    /\ slideUps' = slideUps - 1
    /\ overlay' = "closed"
    /\ closeMemoryCallback
    /\ event' = "slideUp"
    /\ UNCHANGED <<slideDowns, calls>>

\* the popup is loaded and the memory closed; the search input and the favorites
\* filter are as the last use of the memory left them
OverlayInit ==
    /\ extOff
    /\ papers = [id \in CatalogueIds |-> PaperOfId(id)]
    /\ sortedPapers = (CHOOSE order \in Orders(DOMAIN papers) : TRUE)
    /\ showFavorites \in BOOLEAN
    /\ inputValue \in {"", "ga", "t:ga"}
    /\ query = inputValue
    /\ papersList = searchListByKind(sortedPapers, query)
    /\ currentMemoryPagination = 0
    /\ memoryItemsPerPage \in 1..MaxPageSize
    /\ isFullMemoryPage = FALSE
    /\ rendered = slice(papersList, 0, memoryItemsPerPage)
    /\ event = "display" /\ fresh = TRUE
    /\ overlay = "closed" /\ memoryIsOpen = FALSE
    /\ slideDowns = 0 /\ slideUps = 0 /\ calls = 0
    /\ timer = 0 /\ timers = {} /\ keystrokes = 0 /\ delayTime = 0 /\ searches = <<>>
    /\ storage = papers /\ writes = <<>> /\ ui = <<>> /\ statePaperTags = {}
    /\ sortKey = "" /\ now = 0 /\ committed = <<>> /\ target = ""

OverlayNext ==
    \/ openMemory /\ UNCHANGED <<editVars, timer, timers, keystrokes, delayTime, searches, extVars>>
    \/ slideDownEnds
           /\ UNCHANGED <<editVars, timer, timers, keystrokes, delayTime, searches, extVars>>
    \/ closeMemory /\ UNCHANGED <<editVars, timer, timers, keystrokes, delayTime, searches, extVars>>
    \/ slideUpEnds /\ UNCHANGED <<editVars, timer, timers, keystrokes, delayTime, searches, extVars>>

OverlaySpec == OverlayInit /\ [][OverlayNext]_vars

(***************************************************************************)
(* The calls of the flashcard bridge.  ankiRequest awaits fetch, which is  *)
(* given AbortSignal.timeout(TIMEOUT_SECS), and then response.json(); the  *)
(* signal aborts the fetch and the reading of the body alike.  The memory  *)
(* takes no step here.                                                     *)
(***************************************************************************)
\* calls of ankiRequest in a behaviour
MaxRequests == 2

\* AbortSignal.timeout(5000), in seconds
TIMEOUT_SECS == 5

\* the actions of the bridge the calls are made for
AnkiActions == {"version", "addNote"}

\* data.error of a response: null (written ""), or a message
AnkiErrors == {"", "deck was not found"}

\* the memory is not displayed
memoryOff ==
    /\ papers = <<>> /\ sortedPapers = <<>> /\ papersList = <<>>
    /\ showFavorites = FALSE /\ currentMemoryPagination = 0
    /\ memoryItemsPerPage = 1 /\ isFullMemoryPage = FALSE /\ rendered = <<>>
    /\ query = "" /\ fresh = TRUE

\* the call has neither resolved nor rejected
isPending(request) == request.phase \in {"fetch", "json"}

\* ankiRequest(action) up to its first await: the fetch is started
ankiRequest(action) ==
    /\ Len(inflight) < MaxRequests
    /\ inflight' = Append(inflight, [phase |-> "fetch", elapsed |-> 0,
                                     ok |-> FALSE, error |-> "", reason |-> ""])
    /\ event' = action

\* the response arrives: if (!response.ok) throw, else await response.json()
fetchResolves(i, ok) ==
    /\ inflight[i].phase = "fetch"
    /\ inflight' = [inflight EXCEPT ![i] =
                        IF ok THEN [@ EXCEPT !.phase = "json", !.ok = TRUE]
                        ELSE [@ EXCEPT !.phase = "rejected", !.reason = "http"]]
    /\ event' = "fetchResolves"

\* the fetch fails: nothing listens on the port
fetchRejects(i) ==
    /\ inflight[i].phase = "fetch"
    /\ inflight' = [inflight EXCEPT ![i] = [@ EXCEPT !.phase = "rejected",
                                                     !.reason = "network"]]
    /\ event' = "fetchRejects"

\* the body is read: if (data.error) throw, else return data.result
jsonResolves(i, error) ==
    /\ inflight[i].phase = "json"
    /\ inflight' = [inflight EXCEPT ![i] =
                        IF error # ""
                        THEN [@ EXCEPT !.phase = "rejected", !.error = error,
                                       !.reason = "error"]
                        ELSE [@ EXCEPT !.phase = "resolved", !.error = error]]
    /\ event' = "jsonResolves"

\* a second passes for the calls that are pending; a signal that is due aborts first
second ==
    /\ \E i \in DOMAIN inflight : isPending(inflight[i])
    /\ \A i \in DOMAIN inflight :
           isPending(inflight[i]) => inflight[i].elapsed < TIMEOUT_SECS
    /\ inflight' = [i \in DOMAIN inflight |->
                        IF isPending(inflight[i])
                        THEN [inflight[i] EXCEPT !.elapsed = @ + 1]
                        ELSE inflight[i]]
    /\ event' = "second"

\* the fetch was given no signal: the call stays as it is
signalAborts_NoSignal(i) ==
    /\ isPending(inflight[i])
    /\ inflight[i].elapsed = TIMEOUT_SECS
    /\ inflight' = inflight
    /\ event' = event

\* the signal of the fetch aborts it, or the reading of its body, after the timeout
signalAborts(i) ==
    /\ isPending(inflight[i])
    /\ inflight[i].elapsed = TIMEOUT_SECS
    /\ inflight' = [inflight EXCEPT ![i] = [@ EXCEPT !.phase = "rejected",
                                                     !.reason = "timeout"]]
    /\ event' = "signalAborts"

RequestInit ==
    /\ inflight = <<>>
    /\ event = "init"
    /\ memoryOff /\ editOff /\ overlayOff /\ searchOff
    /\ faultOff /\ refreshOff /\ ankiOff

\* what the calls of the bridge leave as it is
requestFrame ==
    UNCHANGED <<papers, sortedPapers, papersList, showFavorites, currentMemoryPagination,
                memoryItemsPerPage, isFullMemoryPage, rendered, query, fresh,
                editVars, overlayVars, searchVars, faultVars, refreshVars, ankiVars>>

\* time passes and a signal that is due aborts
RequestProgress ==
    \/ second /\ requestFrame
    \/ \E i \in DOMAIN inflight : signalAborts(i) /\ requestFrame

RequestNext ==
    \/ \E action \in AnkiActions : ankiRequest(action) /\ requestFrame
    \/ \E i \in DOMAIN inflight, ok \in BOOLEAN : fetchResolves(i, ok) /\ requestFrame
    \/ \E i \in DOMAIN inflight : fetchRejects(i) /\ requestFrame
    \/ \E i \in DOMAIN inflight, error \in AnkiErrors :
           jsonResolves(i, error) /\ requestFrame
    \/ second /\ requestFrame
    \/ \E i \in DOMAIN inflight : signalAborts(i) /\ requestFrame

\* the clock runs and the timer of a signal fires when it is due
RequestSpec == RequestInit /\ [][RequestNext]_vars /\ WF_vars(RequestProgress)

(***************************************************************************)
(* The auto refresh of the full-memory page.  autoRefresh registers        *)
(* resetTimer for the click, keypress and touchstart events and calls it   *)
(* once; a reload starts the page, and autoRefresh, again.                 *)
(***************************************************************************)
\* steps of the clock in one refresh interval
TicksPerInterval == 3

\* calls of resetTimer between two loads of the page
MaxResets == 3

REFRESH_INTERVAL_SECS == 5 * 60

\* the seconds that pass in one step of the clock
RefreshTick == REFRESH_INTERVAL_SECS \div TicksPerInterval

\* the clock stops after three intervals
RefreshHorizon == 3 * REFRESH_INTERVAL_SECS

\* the events autoRefresh listens to
RefreshEvents == {"click", "keypress", "touchstart"}

\* the pending timer is not cleared before the new one is set
resetTimer_NoClear ==
    /\ reloadTimer' = reloadTimer + 1
    /\ reloadTimers' = reloadTimers \cup
                           {[id |-> reloadTimer + 1, left |-> REFRESH_INTERVAL_SECS]}

\* resetTimer: clearTimeout(time); time = setTimeout(reload, REFRESH_INTERVAL_SECS * 1000)
resetTimer ==
    /\ reloadTimer' = reloadTimer + 1
    /\ reloadTimers' = clearTimeout(reloadTimers, reloadTimer) \cup
                           {[id |-> reloadTimer + 1, left |-> REFRESH_INTERVAL_SECS]}

\* autoRefresh, called once the page is loaded
autoRefresh ==
    /\ event = "init"
    /\ IF noRefresh THEN UNCHANGED <<reloadTimer, reloadTimers>> ELSE resetTimer
    /\ event' = "autoRefresh"
    /\ UNCHANGED <<noRefresh, clock, lastEvent, reloads>>

\* a click, keypress or touchstart event of the document: resetTimer is its
\* listener when autoRefresh registered it
userEvent(name) ==
    /\ event # "init"
    /\ reloadTimer < MaxResets
    /\ IF noRefresh THEN UNCHANGED <<reloadTimer, reloadTimers>> ELSE resetTimer
    /\ lastEvent' = clock
    /\ event' = name
    /\ UNCHANGED <<noRefresh, clock, reloads>>

\* RefreshTick seconds pass: no timer is due
refreshTick ==
    /\ event # "init"
    /\ clock < RefreshHorizon
    /\ \A t \in reloadTimers : t.left > 0
    /\ clock' = clock + RefreshTick
    /\ reloadTimers' = {[t EXCEPT !.left = IF @ > RefreshTick THEN @ - RefreshTick ELSE 0] :
                            t \in reloadTimers}
    /\ event' = "tick"
    /\ UNCHANGED <<noRefresh, reloadTimer, lastEvent, reloads>>

\* a timer that is due fires: window.location.reload() starts the page again,
\* with the same URL, no timer and no listener
reload ==
    /\ event # "init"
    /\ \E t \in reloadTimers : t.left = 0
    /\ reloads' = reloads + 1
    /\ reloadTimer' = 0
    /\ reloadTimers' = {}
    /\ lastEvent' = clock
    /\ event' = "init"
    /\ UNCHANGED <<noRefresh, clock>>

RefreshInit ==
    /\ noRefresh \in BOOLEAN
    /\ reloadTimer = 0 /\ reloadTimers = {}
    /\ clock = 0 /\ lastEvent = 0 /\ reloads = 0
    /\ event = "init"
    /\ memoryOff /\ editOff /\ overlayOff /\ searchOff
    /\ faultOff /\ requestOff /\ ankiOff

\* what the auto refresh leaves as it is
refreshFrame ==
    UNCHANGED <<papers, sortedPapers, papersList, showFavorites, currentMemoryPagination,
                memoryItemsPerPage, isFullMemoryPage, rendered, query, fresh,
                editVars, overlayVars, searchVars, faultVars, requestVars, ankiVars>>

RefreshNext ==
    \/ autoRefresh /\ refreshFrame
    \/ \E name \in RefreshEvents : userEvent(name) /\ refreshFrame
    \/ refreshTick /\ refreshFrame
    \/ reload /\ refreshFrame

RefreshSpec == RefreshInit /\ [][RefreshNext]_vars

(***************************************************************************)
(* The flashcard panel.  toggleAnkiView opens or closes it; openAnkiView   *)
(* awaits the availability check of the bridge before it sets the state    *)
(* and the panel up.  The status element #anki-status is part of the form  *)
(* openAnkiView writes in the panel.  The memory takes no step here.       *)
(***************************************************************************)
\* user events in a behaviour
MaxAnkiSteps == 4

\* ankiViewState once closeAnkiView has run, and at the start
closedAnkiViewState == [isOpen |-> FALSE, currentPaper |-> "", capturedImage |-> ""]

\* showAnkiStatus(message, type): nothing when #anki-status is not in the
\* document, and it is there once the form was written
showAnkiStatus(type) ==
    ankiStatus' = (IF session >= 1 THEN type ELSE ankiStatus)

\* closeAnkiView: the three fields are reset
closeAnkiView ==
    /\ ankiViewState' = closedAnkiViewState
    /\ panelSetups' = 0

\* the user events stop at the bound
canAct == steps < MaxAnkiSteps

\* toggleAnkiView (Ctrl/Cmd+K): closeAnkiView when the panel is open; else
\* openAnkiView up to its await, when getCurrentPaper() gives a paper
toggleAnkiView(hasPaper) ==
    /\ canAct
    /\ steps' = steps + 1
    /\ IF ankiViewState.isOpen
       THEN /\ closeAnkiView
            /\ UNCHANGED <<opening, bridgeRequests, ankiStatus>>
       ELSE IF hasPaper
       THEN /\ opening' = opening + 1
            /\ bridgeRequests' = bridgeRequests + 1
            /\ UNCHANGED <<ankiViewState, panelSetups, ankiStatus>>
       ELSE /\ showAnkiStatus("error")
            /\ UNCHANGED <<ankiViewState, panelSetups, opening, bridgeRequests>>
    /\ event' = "toggleAnkiView"
    /\ UNCHANGED <<keydownHandlers, closeTimers, session, cropOpen, captures,
                   fullscreenCrops, cropResults, adding, handled>>

\* openAnkiView after its await: the error status and return when the bridge
\* is not available; else the state, the form, the listeners and the cards
openAnkiView(isAvailable) ==
    /\ opening > 0
    /\ opening' = opening - 1
    /\ IF ~isAvailable
       THEN /\ showAnkiStatus("error")
            /\ UNCHANGED <<ankiViewState, cropOpen, keydownHandlers, bridgeRequests,
                           panelSetups, session>>
       ELSE /\ ankiViewState' = [ankiViewState EXCEPT !.currentPaper = "a1",
                                                      !.isOpen = TRUE]
            /\ ankiStatus' = ""
            /\ cropOpen' = FALSE
            /\ keydownHandlers' = keydownHandlers + 1
            /\ bridgeRequests' = bridgeRequests + 1
            /\ panelSetups' = panelSetups + 1
            /\ session' = session + 1
    /\ event' = (IF isAvailable THEN "openAnkiView" ELSE "openAnkiView(unavailable)")
    /\ UNCHANGED <<closeTimers, captures, fullscreenCrops, cropResults, adding,
                   handled, steps>>

\* a click on the close button of the panel
clickClose ==
    /\ canAct /\ ankiViewState.isOpen
    /\ steps' = steps + 1
    /\ closeAnkiView
    /\ event' = "clickClose"
    /\ UNCHANGED <<opening, bridgeRequests, ankiStatus, keydownHandlers, closeTimers,
                   session, cropOpen, captures, fullscreenCrops, cropResults, adding,
                   handled>>

\* Escape: the listeners of setupAnkiEventListeners run in turn, each returns
\* when the panel is closed or the cropping interface is open; the listener of
\* the cropping interface removes it
keydownEscape ==
    /\ canAct /\ ankiViewState.isOpen
    /\ steps' = steps + 1
    /\ IF cropOpen
       THEN /\ cropOpen' = FALSE
            /\ handled' = 0
            /\ UNCHANGED <<ankiViewState, panelSetups>>
       ELSE /\ closeAnkiView
            /\ handled' = (IF keydownHandlers >= 1 THEN 1 ELSE 0)
            /\ UNCHANGED cropOpen
    /\ event' = "keydown(Escape)"
    /\ UNCHANGED <<opening, bridgeRequests, ankiStatus, keydownHandlers, closeTimers,
                   session, captures, fullscreenCrops, cropResults, adding>>

\* Alt+Shift+C: each listener of setupAnkiEventListeners calls
\* startScreenCapture, which sends a captureTab message
keydownCapture ==
    /\ canAct /\ ankiViewState.isOpen
    /\ steps' = steps + 1
    /\ captures' = captures + keydownHandlers
    /\ handled' = keydownHandlers
    /\ event' = "keydown(Alt+Shift+C)"
    /\ UNCHANGED <<ankiViewState, opening, bridgeRequests, ankiStatus, keydownHandlers,
                   panelSetups, closeTimers, session, cropOpen, fullscreenCrops,
                   cropResults, adding>>

\* the response of a captureTab message: the cropping interface is shown
startScreenCaptureCallback(ok) ==
    /\ captures > 0
    /\ captures' = captures - 1
    /\ IF ok THEN cropOpen' = TRUE /\ UNCHANGED ankiStatus
       ELSE showAnkiStatus("error") /\ UNCHANGED cropOpen
    /\ event' = "startScreenCapture"
    /\ UNCHANGED <<ankiViewState, opening, bridgeRequests, keydownHandlers, panelSetups,
                   closeTimers, session, fullscreenCrops, cropResults, adding, handled,
                   steps>>

\* a crop is confirmed in the cropping interface of the panel
cropAndSaveImageEnhanced ==
    /\ canAct /\ ankiViewState.isOpen /\ cropOpen
    /\ steps' = steps + 1
    /\ ankiViewState' = [ankiViewState EXCEPT !.capturedImage = "jpeg"]
    /\ cropOpen' = FALSE
    /\ event' = "cropAndSaveImageEnhanced"
    /\ UNCHANGED <<opening, bridgeRequests, ankiStatus, keydownHandlers, panelSetups, closeTimers,
                   session, captures, fullscreenCrops, cropResults, adding, handled>>

\* a click on the fullscreen capture button: the content script of the page is
\* asked to start a crop
startFullscreenCropOverlay ==
    /\ canAct /\ ankiViewState.isOpen
    /\ steps' = steps + 1
    /\ fullscreenCrops' = fullscreenCrops + 1
    /\ event' = "startFullscreenCropOverlay"
    /\ UNCHANGED <<ankiViewState, opening, bridgeRequests, ankiStatus, keydownHandlers,
                   panelSetups, closeTimers, session, cropOpen, captures, cropResults,
                   adding, handled>>

\* the anki-crop-result message of the content script: the background is asked
\* to add the note
cropResultMessage ==
    /\ fullscreenCrops > 0
    /\ fullscreenCrops' = fullscreenCrops - 1
    /\ cropResults' = cropResults + 1
    /\ bridgeRequests' = bridgeRequests + 1
    /\ event' = "anki-crop-result"
    /\ UNCHANGED <<ankiViewState, opening, ankiStatus, keydownHandlers, panelSetups,
                   closeTimers, session, cropOpen, captures, adding, handled, steps>>

\* the response of anki-add-from-crop: the image is kept in the panel when the
\* add failed, the panel is closed a little later when it succeeded
cropResultCallback(ok) ==
    /\ cropResults > 0
    /\ cropResults' = cropResults - 1
    /\ IF ok
       THEN /\ showAnkiStatus("success")
            /\ closeTimers' = Append(closeTimers, session)
            /\ UNCHANGED ankiViewState
       ELSE /\ ankiViewState' = [ankiViewState EXCEPT !.capturedImage = "jpeg"]
            /\ UNCHANGED <<ankiStatus, closeTimers>>
    /\ event' = "anki-add-from-crop"
    /\ UNCHANGED <<opening, bridgeRequests, keydownHandlers, panelSetups, session,
                   cropOpen, captures, fullscreenCrops, adding, handled, steps>>

\* handleAddToAnki up to its await: the form is checked, addAnkiCard is called
handleAddToAnki(complete) ==
    /\ canAct /\ ankiViewState.isOpen
    /\ steps' = steps + 1
    /\ IF complete
       THEN /\ showAnkiStatus("info")
            /\ adding' = adding + 1
            /\ bridgeRequests' = bridgeRequests + 1
       ELSE /\ showAnkiStatus("error")
            /\ UNCHANGED <<adding, bridgeRequests>>
    /\ event' = "handleAddToAnki"
    /\ UNCHANGED <<ankiViewState, opening, keydownHandlers, panelSetups, closeTimers,
                   session, cropOpen, captures, fullscreenCrops, cropResults, handled>>

\* handleAddToAnki after its await: setTimeout(closeAnkiView, 1500) when the
\* card was added
handleAddToAnkiResumes(ok) ==
    /\ adding > 0
    /\ adding' = adding - 1
    /\ IF ok
       THEN /\ showAnkiStatus("success")
            /\ closeTimers' = Append(closeTimers, session)
       ELSE /\ showAnkiStatus("error")
            /\ UNCHANGED closeTimers
    /\ event' = "handleAddToAnki(resumed)"
    /\ UNCHANGED <<ankiViewState, opening, bridgeRequests, keydownHandlers, panelSetups,
                   session, cropOpen, captures, fullscreenCrops, cropResults, handled,
                   steps>>

\* a delayed closeAnkiView is due
closeTimerFires(i) ==
    /\ closeTimers' = SubSeq(closeTimers, 1, i - 1)
                          \o SubSeq(closeTimers, i + 1, Len(closeTimers))
    /\ closeAnkiView
    /\ event' = "closeTimer"
    /\ UNCHANGED <<opening, bridgeRequests, ankiStatus, keydownHandlers, session,
                   cropOpen, captures, fullscreenCrops, cropResults, adding, handled,
                   steps>>

AnkiInit ==
    /\ ankiOff
    /\ event = "init"
    /\ memoryOff /\ editOff /\ overlayOff /\ searchOff
    /\ faultOff /\ requestOff /\ refreshOff

\* what the panel leaves as it is
ankiFrame ==
    UNCHANGED <<papers, sortedPapers, papersList, showFavorites, currentMemoryPagination,
                memoryItemsPerPage, isFullMemoryPage, rendered, query, fresh,
                editVars, overlayVars, searchVars, faultVars, requestVars, refreshVars>>

AnkiNext ==
    \/ \E hasPaper \in BOOLEAN : toggleAnkiView(hasPaper) /\ ankiFrame
    \/ \E isAvailable \in BOOLEAN : openAnkiView(isAvailable) /\ ankiFrame
    \/ clickClose /\ ankiFrame
    \/ keydownEscape /\ ankiFrame
    \/ keydownCapture /\ ankiFrame
    \/ \E ok \in BOOLEAN : startScreenCaptureCallback(ok) /\ ankiFrame
    \/ cropAndSaveImageEnhanced /\ ankiFrame
    \/ startFullscreenCropOverlay /\ ankiFrame
    \/ cropResultMessage /\ ankiFrame
    \/ \E ok \in BOOLEAN : cropResultCallback(ok) /\ ankiFrame
    \/ \E complete \in BOOLEAN : handleAddToAnki(complete) /\ ankiFrame
    \/ \E ok \in BOOLEAN : handleAddToAnkiResumes(ok) /\ ankiFrame
    \/ \E i \in DOMAIN closeTimers : closeTimerFires(i) /\ ankiFrame

AnkiSpec == AnkiInit /\ [][AnkiNext]_vars

(***************************************************************************)
(* Vocabulary of the properties.                                           *)
(***************************************************************************)
Range(s) == {s[i] : i \in DOMAIN s}

\* a search function has just returned and its result is not displayed yet
Searched == event = "search"

QueryKind ==
    IF startsWith(query, "t:") THEN "tag"
    ELSE IF startsWith(query, "y:") THEN "year"
    ELSE IF startsWith(query, "c:") THEN "code"
    ELSE "text"

\* what follows the prefix of the query
Operand == IF QueryKind = "text" THEN query ELSE SubSeq(query, 3, Len(query))

\* the year of a paper, as a number
YearOf(id) == parseInt(papers[id].year)

\* C1 (as stated): for "y:<22" a paper of 2023 is kept and a paper of 2021 is
\* not; "smaller" mode keeps exactly the papers whose year is greater than some
\* query year, "greater" mode exactly those whose year is less than some query year.
C1_InvertedPolarity ==
    (Searched /\ QueryKind = "year") =>
        LET years == Range(searchYears(query))
        IN /\ yearCondition(query) = "smaller" =>
                 \A id \in Range(sortedPapers) :
                     id \in Range(papersList) <=> \E y \in years : JsGt(YearOf(id), y)
           /\ yearCondition(query) = "greater" =>
                 \A id \in Range(sortedPapers) :
                     id \in Range(papersList) <=> \E y \in years : JsLt(YearOf(id), y)

\* C1 (amended): for "y:<22" a paper of 2021 is kept and a paper of 2023 is not;
\* "smaller" mode keeps exactly the papers whose year is less than some query
\* year, "greater" mode exactly those whose year is greater than some query year.
C1_YearPolarity ==
    (Searched /\ QueryKind = "year") =>
        LET years == Range(searchYears(query))
        IN /\ yearCondition(query) = "smaller" =>
                 \A id \in Range(sortedPapers) :
                     id \in Range(papersList) <=> \E y \in years : JsLt(YearOf(id), y)
           /\ yearCondition(query) = "greater" =>
                 \A id \in Range(sortedPapers) :
                     id \in Range(papersList) <=> \E y \in years : JsGt(YearOf(id), y)
           /\ query = "y:<22" =>
                 \A id \in Range(sortedPapers) :
                     /\ YearOf(id) = 2021 => id \in Range(papersList)
                     /\ YearOf(id) = 2023 => id \notin Range(papersList)

\* "y:<22" was searched over a paper of 2021, kept, and one of 2023, not kept
C1_Witness ==
    /\ Searched /\ query = "y:<22"
    /\ \E id \in Range(papersList) : YearOf(id) = 2021
    /\ \E id \in Range(sortedPapers) \ Range(papersList) : YearOf(id) = 2023

\* C2 (as stated): with the favorites toggle on, a search of any kind leaves
\* only favorite papers in papersList.
C2_FavoritesOnly ==
    (Searched /\ showFavorites) =>
        \A id \in Range(papersList) : papers[id].favorite

\* the pieces of s between single spaces, the empty ones among them
Pieces(s) ==
    LET ends == 1..(Len(s) + 1)
        cuts == {c \in ends \X ends :
                    /\ c[1] <= c[2]
                    /\ c[1] = 1 \/ CharAt(s, c[1] - 1) = " "
                    /\ c[2] = Len(s) + 1 \/ CharAt(s, c[2]) = " "
                    /\ \A k \in c[1]..(c[2] - 1) : CharAt(s, k) # " "}
    IN {SubSeq(s, c[1], c[2] - 1) : c \in cuts}

IsSubstring(t, f) ==
    \E k \in 0..(Len(f) - Len(t)) : SubSeq(f, k + 1, k + Len(t)) = t

\* the fields a query of a kind is matched against
FieldsOf(kind, paper) ==
    CASE kind = "text" -> {paper.title, paper.author, paper.note, join(paper.tags),
                           paper.id, paper.venue}
      [] kind = "tag" -> Range(paper.tags)
      [] kind = "code" -> {paper.codeLink}

IsNumericToken(t) == Len(t) > 0 /\ \A k \in 1..Len(t) : CharAt(t, k) \in Digits

\* the tokens of a year query: "y:", "<" and ">" stripped, commas and spaces split
YearTokens(q) == Pieces(replaceAll(stripAngles(SubSeq(q, 3, Len(q))), ",", " "))

\* C4 (as stated): a non-numeric or empty token of a year query is discarded,
\* so a query with no numeric token keeps no paper, in every comparison mode.
C4_NonNumericDiscarded ==
    (Searched /\ QueryKind = "year"
        /\ \A t \in YearTokens(query) : ~IsNumericToken(t)) =>
        papersList = <<>>

\* C5 (as stated): a query of any kind with an empty operand keeps every paper
\* of sortedPapers, less the non-favorite ones when the toggle is on.
C5_EmptyOperandKeepsAll ==
    (Searched /\ Operand = "") =>
        papersList = favoritesOf(papers, sortedPapers, showFavorites)

\* the place of an id in a list without duplicates
PlaceIn(s, id) == CHOOSE i \in DOMAIN s : s[i] = id

\* C6: papersList is a subsequence of sortedPapers: no paper from elsewhere, no
\* duplicate, and the relative order of sortedPapers.
C6_Subsequence ==
    /\ Range(papersList) \subseteq Range(sortedPapers)
    /\ \A i, j \in DOMAIN papersList :
           i < j => /\ papersList[i] # papersList[j]
                    /\ PlaceIn(sortedPapers, papersList[i])
                           < PlaceIn(sortedPapers, papersList[j])

\* a filtered list of two papers out of three has been reversed
C6_Witness ==
    /\ event = "reverse"
    /\ Len(papersList) = 2 /\ Len(sortedPapers) = 3
    /\ query # ""

\* C7: a search changes nothing but papersList (sortedPapers, the store, the
\* pagination cursor and showFavorites stay), and searching the same query
\* again over the same sortedPapers and toggle gives the same papersList.
C7_PureSearch ==
    [][event' = "search" =>
          /\ UNCHANGED <<sortedPapers, papers, currentMemoryPagination, showFavorites>>
          /\ (fresh /\ query' = query) => papersList' = papersList]_vars

\* a search has run on a list scrolled past its first page
C7_Witness ==
    /\ Searched /\ currentMemoryPagination > 0
    /\ papersList # sortedPapers

\* C8: filtering the result of a search again, with the same query and toggle,
\* returns that result.
C8_Idempotent ==
    Searched => searchListByKind(papersList, query) = papersList

\* a search has kept some papers and dropped others
C8_Witness ==
    /\ Searched
    /\ Len(papersList) > 0 /\ Len(papersList) < Len(sortedPapers)

\* the rows of the table are the first (cursor + 1) pages of papersList
RenderedIsPrefix ==
    Idle => rendered = slice(papersList, 0,
                             (currentMemoryPagination + 1) * memoryItemsPerPage)

\* C9 (as stated): after any number of "more" triggers the rows are the first
\* min((cursor + 1) * pageSize, length) papers of papersList, and a trigger that
\* comes when every paper is rendered renders nothing and leaves the cursor.
C9_Pagination ==
    /\ []RenderedIsPrefix
    /\ [][(event' = "scroll" /\ Len(rendered) = Len(papersList)) =>
             UNCHANGED <<currentMemoryPagination, rendered>>]_vars

\* C10 (as stated): the cursor is incremented only if papersList has rows beyond
\* (cursor + 1) * pageSize.
C10_IncrementOnlyIfMore ==
    [][currentMemoryPagination' = currentMemoryPagination + 1 =>
          (currentMemoryPagination + 1) * memoryItemsPerPage < Len(papersList)]_vars

\* s is the beginning of t
IsPrefixOf(s, t) == Len(s) <= Len(t) /\ SubSeq(t, 1, Len(s)) = s

\* C11: a display with pagination 0 (the first display, and the one after a
\* recompute) empties the table, leaving the first page alone in it, and sets
\* the cursor to 0; a pagination append keeps the rows already in the table
\* and does not set the cursor back.
C11_ResetOnFirstPageOnly ==
    [][/\ event' = "display" =>
             /\ currentMemoryPagination' = 0
             /\ rendered' = slice(papersList', 0, memoryItemsPerPage')
       /\ event' = "scroll" =>
             /\ IsPrefixOf(rendered, rendered')
             /\ currentMemoryPagination' >= currentMemoryPagination]_vars

\* after a search was displayed, a second page was appended to the first
C11_Witness ==
    /\ event = "scroll" /\ query # ""
    /\ currentMemoryPagination = 1
    /\ Len(rendered) > memoryItemsPerPage

\* C12: the keystrokes that come while a timer of the debounce is pending leave
\* one timer pending, the last keystroke's; no timer of an earlier keystroke
\* ever fires, and the search a timer runs is given the text the input holds
\* then, whatever the delay (0 for a library under 20 papers).
C12_LastKeystrokeWins ==
    /\ [](Cardinality(timers) <= 1 /\ \A t \in timers : t.id = timer)
    /\ [][Len(searches') = Len(searches) + 1 =>
             /\ searches'[Len(searches')].id = timer
             /\ searches'[Len(searches')].letters = trim(inputValue)
             /\ query' = trim(inputValue)
             /\ timers' = {}]_vars

\* with a delay of 0, two keystrokes were handled before the timer ran: one
\* search was run, with the text of the second
C12_Witness ==
    /\ delayTime = 0 /\ keystrokes = 2 /\ inputValue = "ga"
    /\ timers = {}
    /\ searches = <<[id |-> 2, letters |-> "ga"]>>

\* no write is in flight and no callback is half-way
Settled == writes = <<>> /\ event # "sortMemory"

\* C13 (as stated): whenever the page comes to show a new note, new tags or a
\* new favorite flag for a paper, the store already holds that value for it.
C13_StoreBeforeUI ==
    [][\A id \in EditedIds :
           /\ ui'[id].note # ui[id].note => storage'[id].note = ui'[id].note
           /\ ui'[id].tags # ui[id].tags => storage'[id].tags = ui'[id].tags
           /\ ui'[id].favorite # ui[id].favorite =>
                  storage'[id].favorite = ui'[id].favorite]_vars

\* C14 (as stated): once the writes issued have all completed, in whatever
\* order, each field of each paper in the store holds the value written by the
\* save of that field and paper that completed last; a save of another paper
\* or field has not overwritten it.
C14_LastWriteWins ==
    Settled =>
        \A id \in EditedIds :
            /\ storage[id].note = committed[id].note
            /\ storage[id].tags = committed[id].tags
            /\ storage[id].favorite = committed[id].favorite
            /\ storage[id].count = committed[id].count

\* C17 (as stated): once the operations that change tags have completed,
\* global.state.paperTags is the set of the tags of all papers.
C17_TagVocabulary ==
    Settled => statePaperTags = makeTags(papers)

\* C18 (as stated): a step that turns a paper's favorite flag to true sets its
\* favoriteDate to the time of the toggle, and a step that turns it to false
\* leaves favoriteDate as it was.
C18_FavoriteDate ==
    [][\A id \in EditedIds :
           /\ (~papers[id].favorite /\ papers'[id].favorite) =>
                  papers'[id].favoriteDate = now
           /\ (papers[id].favorite /\ ~papers'[id].favorite) =>
                  papers'[id].favoriteDate = papers[id].favoriteDate]_vars

\* sorted is in descending order of the key
IsSortedBy(collection, sorted, key) ==
    \A i, j \in DOMAIN sorted :
        i < j => collection[sorted[i]][key] >= collection[sorted[j]][key]

\* C19 (as stated): with favoriteDate as the sort key, once a toggle of a
\* favorite flag has completed, sortedPapers is in the order of favoriteDate and
\* the table shows the first page of the list.
C19_ResortOnToggle ==
    (Settled /\ sortKey = "favoriteDate") =>
        /\ IsSortedBy(papers, sortedPapers, "favoriteDate")
        /\ rendered = slice(papersList, 0, memoryItemsPerPage)

C15_CloseKeepsPapers ==
    [][event' \in {"closeMemory", "slideUp"} =>
          /\ UNCHANGED <<papers, storage>>
          /\ event' = "slideUp" =>
                 inputValue' = "" /\ ~showFavorites' /\ ~memoryIsOpen']_vars

\* a memory with a search text and the favorites filter on has been closed
C15_Witness ==
    /\ event = "slideUp" /\ overlay = "closed"
    /\ inputValue = "" /\ ~showFavorites /\ ~memoryIsOpen
    /\ Len(papersList) = Len(sortedPapers)
    /\ \E id \in DOMAIN papers : papers[id].favorite

\* the steps of the overlay's state machine
OverlaySteps ==
    {<<"closed", "opening">>, <<"opening", "open">>,
     <<"open", "closing">>, <<"closing", "closed">>}

\* C16 (as stated): whatever the order of the calls of openMemory and
\* closeMemory and of the ends of their animations, the overlay changes only
\* along closed, opening, open, closing, closed, and memoryIsOpen is true
\* whenever the overlay is opening or open.
C16_OverlayStateMachine ==
    /\ [](overlay \in {"opening", "open"} => memoryIsOpen)
    /\ [][overlay' # overlay => <<overlay, overlay'>> \in OverlaySteps]_vars

\* the rows a display of the pages 0..cursor leaves in the table when the
\* papers whose template throws are left out and nothing else is
RenderedBut(skipped) ==
    SelectSeq(slice(papersList, 0, (currentMemoryPagination + 1) * memoryItemsPerPage),
              LAMBDA id : id \notin skipped)

\* C21: when the template of a paper throws, the display leaves that paper out
\* and renders every other paper of the slices displayed so far, in the order
\* of papersList; the cursor counts the pages as if no template had thrown.
C21_SkipThrowingPaper ==
    Idle => rendered = RenderedBut(throwing)

\* a second page was displayed, a paper of the first page threw and a paper
\* after it is in the table
C21_Witness ==
    /\ event = "scroll"
    /\ currentMemoryPagination >= 1
    /\ Len(papersList) >= 2
    /\ papersList[1] \in throwing
    /\ \E i \in 2..Len(papersList) : rendered # <<>> /\ rendered[1] = papersList[i]

\* a paper with "" for each of its fields that is neither a string nor an
\* array, no tag when the field is tags
Emptied(id) ==
    [key \in DOMAIN papers[id] |->
        IF ~isMalformed(id, key) THEN papers[id][key]
        ELSE IF key = "tags" THEN <<>> ELSE ""]

\* C22: with a field that is neither a string nor an array in the store, a
\* search of any kind but the year's still ends with papersList the papers
\* that match when that field counts as empty; no search is left by an error.
C22_MalformedFieldIsEmpty ==
    /\ ~Thrown
    /\ (Searched /\ QueryKind \in {"text", "tag", "code"}) =>
           \A id \in Range(sortedPapers) :
               id \in Range(papersList) <=>
                   /\ \A t \in Pieces(toLowerCase(Operand)) :
                          \E f \in FieldsOf(QueryKind, Emptied(id)) :
                              IsSubstring(t, toLowerCase(f))
                   /\ (showFavorites => papers[id].favorite)

\* C24: every call of ankiRequest completes: it resolves or rejects, at the
\* latest when its signal aborts it after the timeout; and a call that has
\* resolved had a response that was OK and carried no error.
C24_RequestCompletes ==
    /\ [](\A i \in DOMAIN inflight :
             inflight[i].phase = "resolved" => inflight[i].ok /\ inflight[i].error = "")
    /\ \A i \in 1..MaxRequests :
           (i \in DOMAIN inflight) ~> (i \in DOMAIN inflight /\ ~isPending(inflight[i]))

\* a call was aborted by its signal while the body was read, another resolved
C24_Witness ==
    /\ \E i \in DOMAIN inflight :
           inflight[i].reason = "timeout" /\ inflight[i].ok
    /\ \E i \in DOMAIN inflight : inflight[i].phase = "resolved"

\* C25: the page is reloaded only when REFRESH_INTERVAL_SECS have passed since
\* the last click, keypress or touchstart event, or since the page was loaded;
\* each such event leaves exactly one timer, the new one, with the whole interval
\* to run; at most one timer is pending at any time, and none when the URL
\* contains "?noRefresh=true".
C25_ReloadAfterIdleInterval ==
    /\ [](Cardinality(reloadTimers) <= 1 /\ (noRefresh => reloadTimers = {}))
    /\ [][/\ reloads' # reloads => clock - lastEvent >= REFRESH_INTERVAL_SECS
          /\ (event' \in RefreshEvents /\ ~noRefresh) =>
                 reloadTimers' = {[id |-> reloadTimer', left |-> REFRESH_INTERVAL_SECS]}]_vars

\* the page was reloaded after an event had put the reload off
C25_Witness ==
    /\ reloads = 1
    /\ event = "init"
    /\ clock > REFRESH_INTERVAL_SECS

\* C26: Escape in the tags or the note editor of a table row cancels the edit:
\* the tags and the note of the paper stay as they were and no write of the
\* store is issued, whatever was typed and whatever the original value.
C26_EscapeCancels ==
    [][event' \in {"handleTagsKeydownTable(Escape)", "handleNoteKeydownTable(Escape)"} =>
          papers' = papers /\ writes' = writes]_vars

\* C27: whenever the favorites filter is on, every paper of papersList is a
\* favorite, after any searches, favorite toggles, edits and displays.
C27_ListedAreFavorites ==
    showFavorites => \A id \in Range(papersList) : papers[id].favorite

\* C23: when the bridge is not reachable openAnkiView shows an error status,
\* sends no further request to the bridge, does not try again and leaves
\* ankiViewState as it was.
C23_UnavailableBridge ==
    [][event' = "openAnkiView(unavailable)" =>
          /\ ankiStatus' = "error"
          /\ bridgeRequests' = bridgeRequests
          /\ opening' = opening - 1
          /\ ankiViewState' = ankiViewState]_vars

\* C28: however many times the panel was opened and closed, one document
\* keydown listener of setupAnkiEventListeners is registered at most, a single
\* Alt+Shift+C starts one screen capture and a single Escape, with no cropping
\* interface open, calls closeAnkiView once.
C28_OneKeydownHandler ==
    /\ [](keydownHandlers <= 1)
    /\ [][/\ event' = "keydown(Alt+Shift+C)" => handled' = 1
          /\ (event' = "keydown(Escape)" /\ ~cropOpen) => handled' = 1]_vars

\* C29: whenever the panel is closed, currentPaper and capturedImage are null.
C29_ClosedIsEmpty ==
    ~ankiViewState.isOpen =>
        ankiViewState.currentPaper = "" /\ ankiViewState.capturedImage = ""

\* C30: the panel is set up once per opening, also when a second toggle comes
\* while openAnkiView awaits the availability check, and a delayed
\* closeAnkiView closes only the panel the card was added in, never a panel
\* opened after the add.
C30_OneOpeningPerToggle ==
    /\ [](panelSetups <= 1)
    /\ [][(event' = "closeTimer" /\ ankiViewState.isOpen) =>
              \E i \in DOMAIN closeTimers :
                  /\ closeTimers[i] = session
                  /\ closeTimers' = SubSeq(closeTimers, 1, i - 1)
                                        \o SubSeq(closeTimers, i + 1, Len(closeTimers))]_vars

====
